---- MODULE Spec2Model ----
(***************************************************************************)
(* Ibis: a per-user knowledge base (Source, Period, TagType, Tag, Alias,   *)
(* Fact) behind Django REST framework model viewsets.                      *)
(*                                                                         *)
(* The store is the six tables; a request is (user, body); every handler   *)
(* is a pure function of (store, request) that yields the new store and    *)
(* the HTTP response, and each action applies one handler.                 *)
(*                                                                         *)
(* Framework behaviour the repository relies on (rest_framework 3.10+):    *)
(*  - Serializer.to_internal_value runs each declared field and then its   *)
(*    validate_<field> method, collecting ValidationErrors per field; any  *)
(*    other exception escapes as a server error;                           *)
(*  - a field omitted from the body is skipped (its validate_<field> is    *)
(*    not called); a nullable field supplied as null yields None, and      *)
(*    validate_<field>(None) IS called;                                    *)
(*  - ModelSerializer.create/update save the row first (Model.save) and    *)
(*    set the many-to-many relations afterwards with .set(values);         *)
(*  - unique_together (name, user) gets no serializer validator because    *)
(*    `user` is not a serializer field: a duplicate is an IntegrityError.  *)
(* Scalar payload fields that no rule reads (Source.accessed/author/...,   *)
(* Source.name, TagType.name, Tag.text, Fact.key/value) are left out; the  *)
(* names of Tag and Alias, which unique_together reads, are kept.          *)
(***************************************************************************)
EXTENDS Integers, Sequences, FiniteSets, TLC

\* Bounds of the model.
MaxRecords == 3   \* rows ever inserted, over all tables
MaxRef == 2       \* primary keys a request may mention: 1..MaxRef
MaxTime == 2      \* timestamps 1..MaxTime
MaxFields == 2    \* keys a request body supplies

Users == {"u1", "u2"}
Names == {"a", "b"}
Times == 1..MaxTime
RefIds == 1..MaxRef
\* Django's _meta.model_name of the six models
Types == {"source", "period", "tagtype", "tag", "alias", "fact"}

VARIABLES source, period, tagtype, tag, alias, fact, nextId, resp

tables == <<source, period, tagtype, tag, alias, fact>>
vars == <<source, period, tagtype, tag, alias, fact, nextId, resp>>

\* The store as one value: table name -> (pk -> row), and the pk sequences.
DB ==
    [source |-> source, period |-> period, tagtype |-> tagtype, tag |-> tag,
     alias |-> alias, fact |-> fact, nextId |-> nextId]

\* A JSON key: omitted (<<>>) or supplied with a value (<<v>>).
Opt(S) == {<<>>} \cup {<<v>> : v \in S}
Supplied(x) == x # <<>>
Val(x) == x[1]
\* A nullable scalar or foreign key: {} is null, {v} is v.
Nullable(S) == {{}} \cup {{v} : v \in S}
The(s) == CHOOSE v \in s : TRUE

NumSupplied(b) == Cardinality({k \in DOMAIN b : Supplied(b[k])})

\* Request bodies per serializer: the Meta.fields that are writable, plus a
\* `user` key a caller may try to send (it is not a serializer field).
SourceBodies ==
    {b \in [facts : Opt(SUBSET RefIds), user : Opt(Users)] :
        NumSupplied(b) <= MaxFields}
PeriodBodies ==
    {b \in [start : Opt(Nullable(Times)), end : Opt(Nullable(Times)), user : Opt(Users)] :
        NumSupplied(b) <= MaxFields}
TagTypeBodies ==
    {b \in [user : Opt(Users)] : NumSupplied(b) <= MaxFields}
TagBodies ==
    {b \in [name : Opt(Names), type : Opt(Nullable(RefIds)), tags : Opt(SUBSET RefIds),
            user : Opt(Users)] :
        NumSupplied(b) <= MaxFields}
AliasBodies ==
    {b \in [name : Opt(Names), tag : Opt(Nullable(RefIds)), user : Opt(Users)] :
        NumSupplied(b) <= MaxFields}
FactBodies ==
    {b \in [context : Opt(Nullable(RefIds)), period : Opt(Nullable(RefIds)),
            tags : Opt(SUBSET RefIds), sources : Opt(SUBSET RefIds), user : Opt(Users)] :
        NumSupplied(b) <= MaxFields}
Bodies(type) ==
    CASE type = "source" -> SourceBodies
      [] type = "period" -> PeriodBodies
      [] type = "tagtype" -> TagTypeBodies
      [] type = "tag" -> TagBodies
      [] type = "alias" -> AliasBodies
      [] type = "fact" -> FactBodies

----------------------------------------------------------------------------
\* serializers.py: validation

\* Error messages, as the words they are made of.
ForbiddenMessage == <<"Accessing", "another", "user's", "objects", "is", "forbidden">>
OrderMessage == <<"Start", "must", "come", "before", "end">>
\* rest_framework's own: 'required', 'null', 'empty', 'does_not_exist'
RequiredMessage == <<"This", "field", "is", "required.">>
NullMessage == <<"This", "field", "may", "not", "be", "null.">>
EmptyMessage == <<"This", "list", "may", "not", "be", "empty.">>
DoesNotExistMessage == <<"Invalid", "pk", "-", "object", "does", "not", "exist.">>
NonField == "non_field_errors"

\* str.lower on the words above
lower(word) == IF word = "Start" THEN "start" ELSE word
\* `word in message` / `word in message.lower()`
Mentions(message, word) == \E i \in 1..Len(message) : message[i] = word
MentionsLower(message, word) == \E i \in 1..Len(message) : lower(message[i]) = word

\* A bug: the check never raises.
_validate_owned_any(value, u) == {}

\* OwnedModelSerializer._validate_owned: the errors raised for `value`.
_validate_owned(value, u) ==
    IF value.user # u THEN {ForbiddenMessage} ELSE {}

\* OwnedModelSerializer._validate_owned_list: the first element that raises
\* ends the comprehension, so at most one error comes out.
_validate_owned_list(values, u) ==
    UNION {_validate_owned(v, u) : v \in values}

\* A CharField that the model requires (name).
char_errors(x, partial) ==
    IF ~Supplied(x) /\ ~partial THEN {RequiredMessage} ELSE {}

\* A PrimaryKeyRelatedField followed by validate_<field> = _validate_owned.
fk_errors(d, model, u, x, partial, required, allow_null) ==
    IF ~Supplied(x) THEN (IF required /\ ~partial THEN {RequiredMessage} ELSE {})
    ELSE IF Val(x) = {} THEN (IF allow_null THEN {} ELSE {NullMessage})
    ELSE IF The(Val(x)) \notin DOMAIN d[model] THEN {DoesNotExistMessage}
    ELSE _validate_owned(d[model][The(Val(x))], u)

\* A nullable field supplied as null reaches validate_<field> as None, and
\* _validate_owned reads None.user: AttributeError.
fk_raises(x, allow_null) ==
    Supplied(x) /\ Val(x) = {} /\ allow_null

\* A many=True PrimaryKeyRelatedField followed by _validate_owned_list.
m2m_errors(d, model, u, x, partial, required, allow_empty) ==
    IF ~Supplied(x) THEN (IF required /\ ~partial THEN {RequiredMessage} ELSE {})
    ELSE IF Val(x) = {} /\ ~allow_empty THEN {EmptyMessage}
    ELSE IF Val(x) \ DOMAIN d[model] # {} THEN {DoesNotExistMessage}
    ELSE _validate_owned_list({d[model][pk] : pk \in Val(x)}, u)

Keyed(field, messages) == {<<field, m>> : m \in messages}

\* Serializer.to_internal_value per serializer class: the field errors, and
\* the exception (if any) that escapes the field loop.
field_errors(d, type, u, body, partial) ==
    CASE type = "source" ->
            Keyed("facts", m2m_errors(d, "fact", u, body.facts, partial, FALSE, TRUE))
      [] type = "period" -> {}
      [] type = "tagtype" -> {}
      [] type = "tag" ->
            Keyed("name", char_errors(body.name, partial))
            \cup Keyed("type", fk_errors(d, "tagtype", u, body.type, partial, FALSE, TRUE))
            \cup Keyed("tags", m2m_errors(d, "tag", u, body.tags, partial, TRUE, FALSE))
      [] type = "alias" ->
            Keyed("name", char_errors(body.name, partial))
            \cup Keyed("tag", fk_errors(d, "tag", u, body.tag, partial, TRUE, FALSE))
      [] type = "fact" ->
            Keyed("context", fk_errors(d, "tag", u, body.context, partial, FALSE, TRUE))
            \cup Keyed("period", fk_errors(d, "period", u, body.period, partial, FALSE, TRUE))
            \cup Keyed("tags", m2m_errors(d, "tag", u, body.tags, partial, FALSE, TRUE))
            \cup Keyed("sources", m2m_errors(d, "source", u, body.sources, partial, FALSE, TRUE))

field_raises(type, body) ==
    CASE type = "tag" -> fk_raises(body.type, TRUE)
      [] type = "alias" -> fk_raises(body.tag, FALSE)
      [] type = "fact" -> fk_raises(body.context, TRUE) \/ fk_raises(body.period, TRUE)
      [] OTHER -> FALSE

\* A bug: the comparison turned around.
PeriodSerializer_validate_reversed(body) ==
    IF ~Supplied(body.start) \/ ~Supplied(body.end) THEN [exc |-> "KeyError", errors |-> {}]
    ELSE IF Val(body.start) = {} \/ Val(body.end) = {} THEN [exc |-> "TypeError", errors |-> {}]
    ELSE IF The(Val(body.start)) < The(Val(body.end))
         THEN [exc |-> "", errors |-> {<<NonField, OrderMessage>>}]
    ELSE [exc |-> "", errors |-> {}]

\* PeriodSerializer.validate(data): data holds the supplied keys only.
\* data['start'] > data['end'] raises KeyError when a key is missing and
\* TypeError when a value is None.
PeriodSerializer_validate(body) ==
    IF ~Supplied(body.start) \/ ~Supplied(body.end) THEN [exc |-> "KeyError", errors |-> {}]
    ELSE IF Val(body.start) = {} \/ Val(body.end) = {} THEN [exc |-> "TypeError", errors |-> {}]
    ELSE IF The(Val(body.start)) > The(Val(body.end))
         THEN [exc |-> "", errors |-> {<<NonField, OrderMessage>>}]
    ELSE [exc |-> "", errors |-> {}]

\* Serializer.is_valid(): [exc, errors]; valid when both are empty.
is_valid(d, type, u, body, partial) ==
    LET errors == field_errors(d, type, u, body, partial)
    IN  IF field_raises(type, body) THEN [exc |-> "AttributeError", errors |-> {}]
        ELSE IF errors # {} THEN [exc |-> "", errors |-> errors]
        ELSE IF type = "period" THEN PeriodSerializer_validate(body)
        ELSE [exc |-> "", errors |-> {}]

----------------------------------------------------------------------------
\* models.py: rows, Model.save, Model.delete

\* A new instance before its fields are set: nullable columns are NULL and
\* relation sets are empty (the required columns are set by assign).
blank(type) ==
    CASE type = "source" -> [user |-> ""]
      [] type = "period" -> [user |-> "", start |-> {}, end |-> {}]
      [] type = "tagtype" -> [user |-> ""]
      [] type = "tag" -> [user |-> "", name |-> "", type |-> {}, tags |-> {}]
      [] type = "alias" -> [user |-> "", name |-> "", tag |-> {}]
      [] type = "fact" -> [user |-> "", context |-> {}, period |-> {}, tags |-> {}, sources |-> {}]

Put(table, pk, row) ==
    [k \in DOMAIN table \cup {pk} |-> IF k = pk THEN row ELSE table[k]]
Without(table, pks) ==
    [k \in DOMAIN table \ pks |-> table[k]]

\* A bug: the constraint is not declared.
unique_together_unchecked(table, pk, row) == TRUE

\* Tag.Meta / Alias.Meta unique_together = (('name', 'user'),)
unique_together(table, pk, row) ==
    \A k \in DOMAIN table \ {pk} :
        ~(table[k].name = row.name /\ table[k].user = row.user)

\* Fact.save: after the row is written, the context (if set) is added to tags.
Fact_save(row) ==
    [row EXCEPT !.tags = @ \cup row.context]

\* A bug: the row is removed and nothing that points at it is touched.
delete_row_only(d, type, pk) ==
    [d EXCEPT ![type] = Without(@, {pk})]

\* Model.delete with the on_delete rules of the foreign keys that point at
\* the row, and the removal of its many-to-many rows.
delete(d, type, pk) ==
    CASE type = "source" ->
            [d EXCEPT !.source = Without(@, {pk}),
                      !.fact = [f \in DOMAIN @ |-> [@[f] EXCEPT !.sources = @ \ {pk}]]]
      [] type = "period" ->
            \* Fact.period: on_delete=SET_NULL
            [d EXCEPT !.period = Without(@, {pk}),
                      !.fact = [f \in DOMAIN @ |-> [@[f] EXCEPT !.period = @ \ {pk}]]]
      [] type = "tagtype" ->
            \* Tag.type: on_delete=SET_NULL
            [d EXCEPT !.tagtype = Without(@, {pk}),
                      !.tag = [t \in DOMAIN @ |-> [@[t] EXCEPT !.type = @ \ {pk}]]]
      [] type = "tag" ->
            \* Alias.tag and Fact.context: on_delete=CASCADE
            LET gone == {f \in DOMAIN d.fact : d.fact[f].context = {pk}}
                kept == Without(d.fact, gone)
                left == Without(d.tag, {pk})
            IN  [d EXCEPT !.tag = [t \in DOMAIN left |-> [left[t] EXCEPT !.tags = @ \ {pk}]],
                          !.alias = Without(@, {a \in DOMAIN @ : @[a].tag = {pk}}),
                          !.fact = [f \in DOMAIN kept |-> [kept[f] EXCEPT !.tags = @ \ {pk}]]]
      [] type = "alias" -> [d EXCEPT !.alias = Without(@, {pk})]
      [] type = "fact" -> [d EXCEPT !.fact = Without(@, {pk})]

----------------------------------------------------------------------------
\* serializers.py: save

\* The non-relation attributes of validated_data set on the instance
\* (Model(**validated_data) on create, setattr on update); `owner` is
\* validated_data['user'].
assign(type, row, owner, body) ==
    LET set(old, x) == IF Supplied(x) THEN Val(x) ELSE old IN
    CASE type = "source" -> [row EXCEPT !.user = owner]
      [] type = "period" ->
            [row EXCEPT !.user = owner, !.start = set(@, body.start), !.end = set(@, body.end)]
      [] type = "tagtype" -> [row EXCEPT !.user = owner]
      [] type = "tag" ->
            [row EXCEPT !.user = owner, !.name = set(@, body.name), !.type = set(@, body.type)]
      [] type = "alias" ->
            [row EXCEPT !.user = owner, !.name = set(@, body.name), !.tag = set(@, body.tag)]
      [] type = "fact" ->
            [row EXCEPT !.user = owner, !.context = set(@, body.context),
                        !.period = set(@, body.period)]

\* A bug: the relation lists are dropped.
m2m_set_skipped(d, type, pk, body) == d

\* The many-to-many fields of validated_data, set after the row is saved:
\* getattr(instance, name).set(values). Source.facts is the reverse side of
\* Fact.sources.
m2m_set(d, type, pk, body) ==
    CASE type = "source" /\ Supplied(body.facts) ->
            [d EXCEPT !.fact = [f \in DOMAIN @ |->
                [@[f] EXCEPT !.sources = IF f \in Val(body.facts) THEN @ \cup {pk} ELSE @ \ {pk}]]]
      [] type = "tag" /\ Supplied(body.tags) ->
            [d EXCEPT !.tag[pk].tags = Val(body.tags)]
      [] type = "fact" ->
            [d EXCEPT !.fact[pk].tags = IF Supplied(body.tags) THEN Val(body.tags) ELSE @,
                      !.fact[pk].sources = IF Supplied(body.sources) THEN Val(body.sources) ELSE @]
      [] OTHER -> d

\* A bug: `user` accepted from the body.
validated_user_from_body(u, body) ==
    IF Supplied(body.user) THEN Val(body.user) ELSE u

\* OwnedModelSerializer.user, as save puts it in validated_data['user']: the
\* user of the request; a `user` key of the body is no serializer field.
validated_user(u, body) == u

\* OwnedModelSerializer.save: validated_data['user'] = self.user, then
\* ModelSerializer.create (no instance) or .update (instance pk).
OwnedModelSerializer_save(d, type, u, pk, body, creating) ==
    LET row == assign(type, IF creating THEN blank(type) ELSE d[type][pk],
                      validated_user(u, body), body)
        saved == IF type = "fact" THEN Fact_save(row) ELSE row
        d1 == [d EXCEPT ![type] = Put(@, pk, saved),
                        !.nextId[type] = IF creating THEN @ + 1 ELSE @]
    IN  IF type \in {"tag", "alias"} /\ ~unique_together(d[type], pk, row)
        THEN [exc |-> "IntegrityError", db |-> d]
        ELSE [exc |-> "", db |-> m2m_set(d1, type, pk, body)]

----------------------------------------------------------------------------
\* views.py: the six UserModelViewSets

\* A response: status, validation errors (field, message), the exception of a
\* server error, and the primary keys in the body.
Response(status, errors, exc, data) ==
    [status |-> status, errors |-> errors, exc |-> exc, data |-> data]

\* A bug: the queryset of the collection, not filtered by user.
get_queryset_all(d, type, u) ==
    DOMAIN d[type]

\* UserModelViewSet.get_queryset
get_queryset(d, type, u) ==
    {pk \in DOMAIN d[type] : d[type][pk].user = u}

\* get_serializer(...).is_valid(raise_exception=True), then perform_create /
\* perform_update = serializer.save(). An exception that is no ValidationError
\* is a server error; nothing was written when it is raised.
write(d, type, u, pk, body, creating, partial) ==
    LET v == is_valid(d, type, u, body, partial)
        s == OwnedModelSerializer_save(d, type, u, pk, body, creating)
    IN  IF v.exc # "" THEN [db |-> d, resp |-> Response("server_error", {}, v.exc, {})]
        ELSE IF v.errors # {} THEN [db |-> d, resp |-> Response("bad_request", v.errors, "", {})]
        ELSE IF s.exc # "" THEN [db |-> d, resp |-> Response("server_error", {}, s.exc, {})]
        ELSE [db |-> s.db,
              resp |-> Response(IF creating THEN "created" ELSE "ok", {}, "", {pk})]

NotFound(d) == [db |-> d, resp |-> Response("not_found", {}, "", {})]

\* CreateModelMixin.create
create(d, type, u, body) ==
    write(d, type, u, d.nextId[type], body, TRUE, FALSE)

\* UpdateModelMixin.update / partial_update: get_object() looks pk up in
\* get_queryset().
update(d, type, u, pk, body, partial) ==
    IF pk \notin get_queryset(d, type, u) THEN NotFound(d)
    ELSE write(d, type, u, pk, body, FALSE, partial)

\* A bug: the row is looked up in the whole collection.
destroy_any(d, type, u, pk) ==
    IF pk \notin DOMAIN d[type] THEN NotFound(d)
    ELSE [db |-> delete(d, type, pk), resp |-> Response("no_content", {}, "", {})]

\* DestroyModelMixin.destroy: get_object() looks pk up in get_queryset().
destroy(d, type, u, pk) ==
    IF pk \notin get_queryset(d, type, u) THEN NotFound(d)
    ELSE [db |-> delete(d, type, pk), resp |-> Response("no_content", {}, "", {})]

\* ListModelMixin.list
list(d, type, u) ==
    [db |-> d, resp |-> Response("ok", {}, "", get_queryset(d, type, u))]

\* RetrieveModelMixin.retrieve
retrieve(d, type, u, pk) ==
    IF pk \notin get_queryset(d, type, u) THEN NotFound(d)
    ELSE [db |-> d, resp |-> Response("ok", {}, "", {pk})]

\* Direct model writes, as the tests seed the store: Tag(name=, user=).save()
Tag_save(d, u, name) ==
    LET row == [blank("tag") EXCEPT !.user = u, !.name = name]
        pk == d.nextId.tag
    IN  IF ~unique_together(d.tag, pk, row) THEN d
        ELSE [d EXCEPT !.tag = Put(@, pk, row), !.nextId.tag = @ + 1]

\* Fact(value=, user=, context=).save() for a new fact
Fact_create(d, u, context) ==
    LET row == Fact_save([blank("fact") EXCEPT !.user = u, !.context = context])
    IN  [d EXCEPT !.fact = Put(@, d.nextId.fact, row), !.nextId.fact = @ + 1]

\* fact.context = context; fact.save() for a stored fact
Fact_update(d, pk, context) ==
    [d EXCEPT !.fact[pk] = Fact_save([@ EXCEPT !.context = context])]

----------------------------------------------------------------------------
\* The state machine

NoResponse == Response("none", {}, "", {})

Init ==
    /\ source = <<>> /\ period = <<>> /\ tagtype = <<>>
    /\ tag = <<>> /\ alias = <<>> /\ fact = <<>>
    /\ nextId = [t \in Types |-> 1]
    /\ resp = NoResponse

Created(d) ==
    d.nextId.source + d.nextId.period + d.nextId.tagtype + d.nextId.tag
    + d.nextId.alias + d.nextId.fact - 6

\* The bounds on inserts: MaxRecords rows in all, and every row addressable.
HasRoom(d, type) ==
    Created(d) < MaxRecords /\ d.nextId[type] <= MaxRef

Store(d) ==
    /\ source' = d.source /\ period' = d.period /\ tagtype' = d.tagtype
    /\ tag' = d.tag /\ alias' = d.alias /\ fact' = d.fact
    /\ nextId' = d.nextId

\* One handler run. A specification that studies the store alone does not
\* observe the responses (a rejected request is then a stuttering step); one
\* that studies the responses keeps the last one in resp.
Commit(out, observed) ==
    Store(out.db) /\ resp' = (IF observed THEN out.resp ELSE resp)

NoBody(type) == CHOOSE b \in Bodies(type) : NumSupplied(b) = 0

\* POST /<collection>/
Create(T, observed) ==
    \E type \in T, u \in Users :
       /\ HasRoom(DB, type)
       /\ \E body \in Bodies(type) : Commit(create(DB, type, u, body), observed)

\* PUT /<collection>/<pk>/
Update(T, observed) ==
    \E type \in T, u \in Users, pk \in RefIds :
       IF pk \in get_queryset(DB, type, u)
       THEN (\E body \in Bodies(type) : Commit(update(DB, type, u, pk, body, FALSE), observed))
       ELSE Commit(update(DB, type, u, pk, NoBody(type), FALSE), observed)

\* PATCH /<collection>/<pk>/
PartialUpdate(T, observed) ==
    \E type \in T, u \in Users, pk \in RefIds :
       IF pk \in get_queryset(DB, type, u)
       THEN (\E body \in Bodies(type) : Commit(update(DB, type, u, pk, body, TRUE), observed))
       ELSE Commit(update(DB, type, u, pk, NoBody(type), TRUE), observed)

\* DELETE /<collection>/<pk>/
Destroy(T, observed) ==
    \E type \in T, u \in Users :
       \E pk \in RefIds : Commit(destroy(DB, type, u, pk), observed)

\* GET /<collection>/
List ==
    \E type \in Types, u \in Users : Commit(list(DB, type, u), TRUE)

\* GET /<collection>/<pk>/
Retrieve ==
    \E type \in Types, u \in Users :
       \E pk \in RefIds : Commit(retrieve(DB, type, u, pk), TRUE)

\* Tag(name=name, user=u).save()
TagSave ==
    /\ HasRoom(DB, "tag")
    /\ \E u \in Users, name \in Names : Store(Tag_save(DB, u, name))
    /\ UNCHANGED resp

\* Fact.save() outside the API: a new fact, or a stored fact given a context.
\* The model layer does not look at who owns the context tag.
FactSave ==
    /\ \E context \in Nullable(DOMAIN tag) :
          \/ /\ HasRoom(DB, "fact")
             /\ \E u \in Users : Store(Fact_create(DB, u, context))
          \/ \E pk \in DOMAIN fact : Store(Fact_update(DB, pk, context))
    /\ UNCHANGED resp

\* The API on every collection, and the bare tags the store is seeded with
\* (TagSerializer requires a non-empty `tags`, so the API alone cannot create
\* the first Tag).
NextApi ==
    \/ Create(Types, FALSE)
    \/ Update(Types, FALSE)
    \/ PartialUpdate(Types, FALSE)
    \/ Destroy(Types, FALSE)
    \/ TagSave

\* The API and direct model writes.
Next ==
    NextApi \/ FactSave

\* Period requests with their responses.
NextPeriod ==
    \/ Create({"period"}, TRUE)
    \/ Update({"period"}, TRUE)
    \/ PartialUpdate({"period"}, TRUE)
    \/ Destroy({"period"}, TRUE)

\* Reads with their responses, over stores built by creates and deletes.
NextRead ==
    \/ Create(Types, FALSE)
    \/ Destroy(Types, FALSE)
    \/ TagSave
    \/ List
    \/ Retrieve

Spec == Init /\ [][Next]_vars
SpecApi == Init /\ [][NextApi]_vars
SpecPeriod == Init /\ [][NextPeriod]_vars
SpecRead == Init /\ [][NextRead]_vars

----------------------------------------------------------------------------
\* Properties

\* P(body, outcome) holds of every write a user can issue on a collection: a
\* create (while the model inserts), or a full or partial update of a row the
\* user's queryset holds.
ForAllWrites(d, type, u, P(_, _)) ==
    /\ HasRoom(d, type) => \A b \in Bodies(type) : P(b, create(d, type, u, b))
    /\ \A pk \in get_queryset(d, type, u), b \in Bodies(type), partial \in BOOLEAN :
          P(b, update(d, type, u, pk, b, partial))

\* C1: after every successful Fact write with a non-null context the fact's
\* tag set contains the context tag, so every stored Fact with a non-null
\* context has that tag in its tag set.
C1_ContextInTags ==
    \A f \in DOMAIN fact : fact[f].context \subseteq fact[f].tags

\* The reference fields of each serializer, with the model they point at.
RefFields(type) ==
    CASE type = "source" -> {<<"facts", "fact">>}
      [] type = "tag" -> {<<"type", "tagtype">>, <<"tags", "tag">>}
      [] type = "alias" -> {<<"tag", "tag">>}
      [] type = "fact" -> {<<"context", "tag">>, <<"period", "period">>,
                           <<"tags", "tag">>, <<"sources", "source">>}
      [] OTHER -> {}

\* The value supplied for a field names a row that another user owns.
HasForeign(d, model, u, x) ==
    Supplied(x) /\ \E pk \in Val(x) : pk \in DOMAIN d[model] /\ d[model][pk].user # u

\* C2: a write by user A whose value for a reference field references an
\* object owned by another user (for a list: at least one element) fails
\* validation, and the error set has exactly one key, the name of that field,
\* carrying exactly one 'forbidden' error.
C2_CrossUserRejected ==
    \A type \in Types, u \in Users :
       ForAllWrites(DB, type, u, LAMBDA body, out :
          \A f \in RefFields(type) :
             HasForeign(DB, f[2], u, body[f[1]]) =>
                /\ out.resp.status = "bad_request"
                /\ out.db = DB
                /\ {e[1] : e \in out.resp.errors} = {f[1]}
                /\ Cardinality(out.resp.errors) = 1
                /\ \A e \in out.resp.errors : Mentions(e[2], "forbidden"))

\* C3: a list request by user A returns exactly the records of that type
\* whose owner is A, and a retrieve of a record that does not exist or is
\* owned by another user yields not-found instead of the record.
C3_ReadsScoped ==
    \A type \in Types, u \in Users :
       /\ list(DB, type, u).resp.status = "ok"
       /\ \A pk \in DOMAIN DB[type] \cup RefIds :
             pk \in list(DB, type, u).resp.data
                <=> (pk \in DOMAIN DB[type] /\ DB[type][pk].user = u)
       /\ \A pk \in RefIds :
             (pk \notin DOMAIN DB[type] \/ DB[type][pk].user # u) =>
                /\ retrieve(DB, type, u, pk).resp.status = "not_found"
                /\ retrieve(DB, type, u, pk).resp.data = {}

\* A list answered with exactly the requester's rows of a table that also
\* holds rows of another user.
C3_Witness ==
    \E type \in Types, u \in Users :
       /\ resp.status = "ok"
       /\ resp.data # {}
       /\ resp.data = {pk \in DOMAIN DB[type] : DB[type][pk].user = u}
       /\ DOMAIN DB[type] \ resp.data # {}

\* Both bounds supplied, not null, start later than end.
StartAfterEnd(body) ==
    /\ Supplied(body.start) /\ Supplied(body.end)
    /\ Val(body.start) # {} /\ Val(body.end) # {}
    /\ The(Val(body.start)) > The(Val(body.end))

\* C4: every Period write (create, full update, partial update) in which both
\* start and end are set and start is later than end fails validation, and
\* the error set has exactly one key, the non-field key, with exactly one
\* message that names both start and end.
C4_PeriodOrderRejected ==
    \A u \in Users :
       ForAllWrites(DB, "period", u, LAMBDA body, out :
          StartAfterEnd(body) =>
             /\ out.resp.status = "bad_request"
             /\ out.db = DB
             /\ {e[1] : e \in out.resp.errors} = {NonField}
             /\ Cardinality(out.resp.errors) = 1
             /\ \A e \in out.resp.errors :
                   MentionsLower(e[2], "start") /\ MentionsLower(e[2], "end"))

\* A Period write was answered with the one non-field error.
C4_Witness ==
    /\ resp.status = "bad_request"
    /\ resp.errors = {<<NonField, OrderMessage>>}

\* C5: every record persisted by a successful serializer save has as owner
\* the user of the request that wrote it (whatever `user` the body carries):
\* a create stamps the requester, and no update or partial update changes
\* the owner of a stored record.
C5_OwnerFromRequest ==
    \A type \in Types, u \in Users :
       ForAllWrites(DB, type, u, LAMBDA body, out :
          /\ out.resp.status \in {"created", "ok"} =>
                \A pk \in out.resp.data :
                   pk \in DOMAIN out.db[type] /\ out.db[type][pk].user = u
          /\ \/ out.db = DB
             \/ \A t \in Types :
                   \A k \in DOMAIN DB[t] \cap DOMAIN out.db[t] :
                      out.db[t][k].user = DB[t][k].user)

\* Both users hold tag types, which only API creates can insert.
C5_Witness ==
    \E p, q \in DOMAIN tagtype :
       tagtype[p].user = "u1" /\ tagtype[q].user = "u2"

\* A body that supplies the one key `field` and nothing else.
Only(b, field) ==
    Supplied(b[field]) /\ NumSupplied(b) = 1

\* C6: a partial update by user A that sets one reference field
\* (Source.facts, Tag.tags, Tag.type) to objects all owned by A passes
\* validation, and after the save the record's field holds the reference
\* (a list-valued field: the relation set contains each given object).
C6_SameUserReference ==
    \A u \in Users :
       /\ \A pk \in get_queryset(DB, "source", u), b \in SourceBodies :
             (/\ Only(b, "facts") /\ Val(b.facts) # {}
              /\ Val(b.facts) \subseteq get_queryset(DB, "fact", u)) =>
                LET out == update(DB, "source", u, pk, b, TRUE)
                IN  /\ out.resp.status = "ok"
                    /\ \A f \in Val(b.facts) : pk \in out.db.fact[f].sources
       /\ \A pk \in get_queryset(DB, "tag", u), b \in TagBodies :
             /\ (/\ Only(b, "tags") /\ Val(b.tags) # {}
                 /\ Val(b.tags) \subseteq get_queryset(DB, "tag", u)) =>
                   LET out == update(DB, "tag", u, pk, b, TRUE)
                   IN  /\ out.resp.status = "ok"
                       /\ Val(b.tags) \subseteq out.db.tag[pk].tags
             /\ (/\ Only(b, "type") /\ Val(b.type) # {}
                 /\ Val(b.type) \subseteq get_queryset(DB, "tagtype", u)) =>
                   LET out == update(DB, "tag", u, pk, b, TRUE)
                   IN  /\ out.resp.status = "ok"
                       /\ out.db.tag[pk].type = Val(b.type)

\* A tag that was given a type and related tags, and a source linked to a
\* fact, can only come from such updates or creates.
C6_Witness ==
    \E t \in DOMAIN tag : tag[t].type # {} /\ tag[t].tags # {}

\* Every key of pks names a row of `model` that `owner` owns.
Owned(d, model, pks, owner) ==
    \A k \in pks : k \in DOMAIN d[model] /\ d[model][k].user = owner

\* C7: in every state reachable through the API, every reference a record
\* holds (Alias.tag, Tag.type, Tag.tags, Fact.context, Fact.period, Fact.tags,
\* Fact.sources) points to a record owned by the same user.
C7_ReferencesSameOwner ==
    /\ \A a \in DOMAIN alias : Owned(DB, "tag", alias[a].tag, alias[a].user)
    /\ \A t \in DOMAIN tag :
          /\ Owned(DB, "tagtype", tag[t].type, tag[t].user)
          /\ Owned(DB, "tag", tag[t].tags, tag[t].user)
    /\ \A f \in DOMAIN fact :
          /\ Owned(DB, "tag", fact[f].context, fact[f].user)
          /\ Owned(DB, "period", fact[f].period, fact[f].user)
          /\ Owned(DB, "tag", fact[f].tags, fact[f].user)
          /\ Owned(DB, "source", fact[f].sources, fact[f].user)

\* A fact holding a context while another user owns a tag too.
C7_Witness ==
    \E f \in DOMAIN fact, t \in DOMAIN tag :
       fact[f].context # {} /\ tag[t].user # fact[f].user

\* Going from store d to store e leaves the rows that users other than u own
\* as they are: each is still there with the same fields and relation sets,
\* and e holds no further row of theirs.
OthersUnchanged(d, e, u) ==
    \/ e = d
    \/ \A t \in Types :
          /\ \A k \in DOMAIN d[t] :
                d[t][k].user # u => k \in DOMAIN e[t] /\ e[t][k] = d[t][k]
          /\ \A k \in DOMAIN e[t] \ DOMAIN d[t] : e[t][k].user = u

\* C8: every API operation issued by user A (create, update, partial update,
\* delete, succeeding or not, whatever id it addresses) leaves every record
\* owned by another user unchanged: none is created, deleted or changed in
\* any field or relation set; an update or delete addressed at another
\* user's record resolves to not-found.
C8_OthersUntouched ==
    \A type \in Types, u \in Users :
       /\ ForAllWrites(DB, type, u, LAMBDA body, out : OthersUnchanged(DB, out.db, u))
       /\ \A pk \in RefIds :
             /\ OthersUnchanged(DB, destroy(DB, type, u, pk).db, u)
             /\ pk \notin get_queryset(DB, type, u) =>
                   /\ destroy(DB, type, u, pk) = NotFound(DB)
                   /\ \A b \in Bodies(type), partial \in BOOLEAN :
                         LET out == update(DB, type, u, pk, b, partial)
                         IN  out.resp.status = "not_found" /\ out.db = DB

\* Two users hold rows of one table, the second inserted beside the first.
C8_Witness ==
    \E type \in Types :
       /\ {1, 2} \subseteq DOMAIN DB[type]
       /\ DB[type][1].user # DB[type][2].user

\* C9: start and end are each optional and the ordering rule applies only
\* when both are present: a Period write in which start or end is omitted or
\* null, or in which start equals end, passes validation and is persisted.
C9_OptionalBounds ==
    \A u \in Users :
       ForAllWrites(DB, "period", u, LAMBDA body, out :
          (\/ ~Supplied(body.start) \/ ~Supplied(body.end)
           \/ Val(body.start) = {} \/ Val(body.end) = {}
           \/ Val(body.start) = Val(body.end)) =>
             /\ out.resp.status \in {"created", "ok"}
             /\ \A pk \in out.resp.data :
                   /\ pk \in DOMAIN out.db.period
                   /\ Supplied(body.start) => out.db.period[pk].start = Val(body.start)
                   /\ Supplied(body.end) => out.db.period[pk].end = Val(body.end))

\* No row holds the key of a row that is not stored.
NoDangling(d) ==
    /\ \A a \in DOMAIN d.alias : d.alias[a].tag \subseteq DOMAIN d.tag
    /\ \A t \in DOMAIN d.tag :
          d.tag[t].type \subseteq DOMAIN d.tagtype /\ d.tag[t].tags \subseteq DOMAIN d.tag
    /\ \A f \in DOMAIN d.fact :
          /\ d.fact[f].context \subseteq DOMAIN d.tag
          /\ d.fact[f].period \subseteq DOMAIN d.period
          /\ d.fact[f].tags \subseteq DOMAIN d.tag
          /\ d.fact[f].sources \subseteq DOMAIN d.source

\* C10: deleting a TagType keeps every Tag that referenced it and sets its
\* type to null; deleting a Period keeps every Fact that referenced it and
\* sets its period to null; deleting a Tag deletes every Alias of that tag
\* and every Fact whose context is that tag; after any delete no stored
\* record holds a reference to a deleted record.
C10_DeleteRules ==
    /\ NoDangling(DB)
    /\ \A type \in Types, u \in Users :
          \A pk \in get_queryset(DB, type, u) :
             LET out == destroy(DB, type, u, pk).db
             IN  /\ pk \notin DOMAIN out[type]
                 /\ NoDangling(out)
                 /\ type = "tagtype" =>
                       /\ DOMAIN out.tag = DOMAIN tag
                       /\ \A t \in DOMAIN tag :
                             out.tag[t].type = (IF tag[t].type = {pk} THEN {} ELSE tag[t].type)
                 /\ type = "period" =>
                       /\ DOMAIN out.fact = DOMAIN fact
                       /\ \A f \in DOMAIN fact :
                             out.fact[f].period = (IF fact[f].period = {pk} THEN {} ELSE fact[f].period)
                 /\ type = "tag" =>
                       /\ DOMAIN out.alias = {a \in DOMAIN alias : alias[a].tag # {pk}}
                       /\ DOMAIN out.fact = {f \in DOMAIN fact : fact[f].context # {pk}}

\* A tag, its alias and a fact in its context were inserted and are gone.
C10_Witness ==
    /\ nextId.tag > 1 /\ nextId.alias > 1 /\ nextId.fact > 1
    /\ tag = <<>> /\ alias = <<>> /\ fact = <<>>

\* No two rows of the table have the same (name, user).
NamesUnique(table) ==
    \A j, k \in DOMAIN table :
       j # k => ~(table[j].name = table[k].name /\ table[j].user = table[k].user)

\* Row pk of user u, written with body b, would carry a name that another row
\* of u in the table carries already.
WouldDuplicate(d, type, u, pk, b) ==
    LET name == IF Supplied(b.name) THEN Val(b.name)
                ELSE IF pk \in DOMAIN d[type] THEN d[type][pk].name ELSE ""
    IN  \E k \in DOMAIN d[type] \ {pk} :
           d[type][k].user = u /\ d[type][k].name = name

\* C11: no two Tags of one user have the same name and no two Aliases of one
\* user have the same name; a create or update that would produce such a
\* duplicate persists nothing (and does not succeed), every write leaves the
\* names unique, and a name that only other users hold is never refused as a
\* duplicate.
C11_UniqueNames ==
    /\ NamesUnique(tag) /\ NamesUnique(alias)
    /\ \A type \in {"tag", "alias"}, u \in Users :
          /\ HasRoom(DB, type) =>
                \A b \in Bodies(type) :
                   LET out == create(DB, type, u, b)
                   IN  /\ NamesUnique(out.db[type])
                       /\ WouldDuplicate(DB, type, u, DB.nextId[type], b) =>
                             out.db = DB /\ out.resp.status \notin {"created", "ok"}
                       /\ ~WouldDuplicate(DB, type, u, DB.nextId[type], b) =>
                             out.resp.exc # "IntegrityError"
          /\ \A pk \in get_queryset(DB, type, u), b \in Bodies(type), partial \in BOOLEAN :
                LET out == update(DB, type, u, pk, b, partial)
                IN  /\ NamesUnique(out.db[type])
                    /\ WouldDuplicate(DB, type, u, pk, b) =>
                          out.db = DB /\ out.resp.status \notin {"created", "ok"}
                    /\ ~WouldDuplicate(DB, type, u, pk, b) =>
                          out.resp.exc # "IntegrityError"

\* A user holds two tags, and the rename of one to the other's name is refused
\* by the constraint.
C11_Witness ==
    \E u \in Users :
       \E pk \in get_queryset(DB, "tag", u), b \in TagBodies :
          /\ Only(b, "name")
          /\ Val(b.name) # tag[pk].name
          /\ update(DB, "tag", u, pk, b, TRUE).resp.exc = "IntegrityError"

\* The body supplies the nullable reference `field` as null.
SuppliedNull(b, field) ==
    Supplied(b[field]) /\ Val(b[field]) = {}

\* What C12 asks of a write whose body supplies `field` as null: validation
\* does not fail on that field (no error under its key, no exception out of
\* its validate method), and a body with no error at all is persisted with
\* the reference empty.
NullAccepted(type, field, b, out) ==
    SuppliedNull(b, field) =>
       /\ out.resp.exc # "AttributeError"
       /\ \A e \in out.resp.errors : e[1] # field
       /\ (out.resp.errors = {} /\ out.resp.exc = "") =>
             /\ out.resp.status \in {"created", "ok"}
             /\ \A pk \in out.resp.data : out.db[type][pk][field] = {}

\* C12: the ownership check applies only to an object that is referenced: a
\* Fact write that supplies context or period as null, and a Tag write that
\* supplies type as null, passes validation with no error on that field and
\* is persisted with that reference empty.
C12_NullReferenceAccepted ==
    \A u \in Users :
       /\ ForAllWrites(DB, "fact", u, LAMBDA body, out :
             /\ NullAccepted("fact", "context", body, out)
             /\ NullAccepted("fact", "period", body, out))
       /\ ForAllWrites(DB, "tag", u, LAMBDA body, out :
             NullAccepted("tag", "type", body, out))

====
